---- MODULE Spec2Model ----
(***************************************************************************)
(* The dungeon scene of rogue_dungeon_crawler: DungeonScene.create paints  *)
(* the rooms of a generated dungeon into the ground and stuff tile layers, *)
(* DungeonScene.update tracks the player's room once per frame, and the    *)
(* stairs callback restarts the scene with a new level.                    *)
(*                                                                         *)
(* ./ts/tile-mapping.js and ./ts/tilemap-visibility.js are imported by the *)
(* scene but are not among the available sources; TILES and SetActiveRoom  *)
(* follow the written specification (sections 3, 4.1 and 4.2).             *)
(***************************************************************************)
EXTENDS Integers, Sequences, FiniteSets, TLC

(***************************************************************************)
(* Bounds of the model.                                                    *)
(***************************************************************************)
\* Largest number of rooms in a modelled dungeon.
MaxRooms == 5
\* Number of size profiles of the modelled dungeons.
Profiles == 4
\* Math.random() returns one of 0/RandDen .. (RandDen-1)/RandDen.
RandDen == 12
\* Number of levels generated before the model stops creating new ones.
MaxLevel == 2
\* Largest width and height of a room painted on its own.
MaxProbeSize == 6

(***************************************************************************)
(* Program constants.                                                      *)
(***************************************************************************)
DungeonWidth == 50
DungeonHeight == 50
\* rooms.width.min / rooms.height.min of the generator's options.
RoomMin == 7
\* The engine's index of a cell that holds no tile.
EmptyIndex == -1

None == 0

VARIABLES
    level,                  \* this.level
    hasPlayerReachedStairs, \* this.hasPlayerReachedStairs
    dungeon,                \* this.dungeon: [width, height, rooms]
    groundLayer,            \* this.groundLayer: [fill, tiles, collides, fillCollides]
    stuffLayer,             \* this.stuffLayer
    shadowLayer,            \* the shadow layer's tile alphas, cell -> 0 | 5 (x 0.1)
    activeRoom,             \* tilemapVisibility.activeRoom: a room number or None
    player,                 \* this.player: [x, y, frozen, alive] in tile units
    stairsCallback,         \* the callback registered for TILES.STAIRS
    fadePending,            \* a "camerafadeoutcomplete" listener is waiting
    scene,                  \* the scene's lifecycle: "init","running","restarting","crashed"
    placement,              \* create's room classification and prop draws
    frame,                  \* what the last update frame did
    goalStarts,             \* goal transitions started in the current level
    fadesDone,              \* fades completed since the game started
    probe                   \* the result of painting one room on its own

vars == <<level, hasPlayerReachedStairs, dungeon, groundLayer, stuffLayer,
          shadowLayer, activeRoom, player, stairsCallback, fadePending, scene,
          placement, frame, goalStarts, fadesDone, probe>>

(***************************************************************************)
(* The tile index table (./ts/tile-mapping.js).  A weighted role is a list *)
(* of alternatives [index, weight]; an alternative with several indexes is *)
(* an array from which one index is drawn uniformly.  Patterns are rows of *)
(* columns.                                                                *)
(***************************************************************************)
TILES ==
    [BLANK |-> 20,
     WALL |-> [TOP_LEFT |-> 3, TOP_RIGHT |-> 4, BOTTOM_RIGHT |-> 23, BOTTOM_LEFT |-> 22,
               TOP    |-> << [index |-> <<39>>, weight |-> 4], [index |-> <<57, 58, 59>>, weight |-> 1] >>,
               LEFT   |-> << [index |-> <<21>>, weight |-> 4], [index |-> <<76, 95, 114>>, weight |-> 1] >>,
               RIGHT  |-> << [index |-> <<19>>, weight |-> 4], [index |-> <<77, 96, 115>>, weight |-> 1] >>,
               BOTTOM |-> << [index |-> <<1>>, weight |-> 4], [index |-> <<78, 79, 80>>, weight |-> 1] >>],
     FLOOR |-> << [index |-> <<6>>, weight |-> 9], [index |-> <<7, 8, 26>>, weight |-> 1] >>,
     POT |-> << [index |-> <<13>>, weight |-> 1], [index |-> <<32>>, weight |-> 1],
                [index |-> <<51>>, weight |-> 1] >>,
     DOOR |-> [TOP    |-> << <<40, 6, 38>> >>,
               LEFT   |-> << <<40>>, <<6>>, <<2>> >>,
               BOTTOM |-> << <<2, 6, 0>> >>,
               RIGHT  |-> << <<38>>, <<6>>, <<0>> >>],
     CHEST |-> 166,
     STAIRS |-> 81,
     TOWER |-> << <<186>>, <<205>> >>]

\* Every index a weighted role can resolve to.
RoleIndexes(alts) == UNION { { alts[j].index[i] : i \in 1..Len(alts[j].index) } : j \in 1..Len(alts) }

(***************************************************************************)
(* Math.random().  Every call draws a value of [0, 1).  A tape is one      *)
(* outcome of all the draws of a run of create: the call in slot k draws   *)
(* Rnd(tape, k) / RandDen.  The slots number the calls in program order; a *)
(* cell of weightedRandomize owns two slots, of which it leaves the second *)
(* unused when the alternative it picks is a single index, and a prop room *)
(* owns five: its draw, the pot's x and y and the pot's cell.              *)
(***************************************************************************)
Tapes == [seed : 0..(RandDen - 1), step : 0..(RandDen - 1)]

Rnd(tape, k) == (tape.seed + k * tape.step) % RandDen

\* Math.floor(Math.random() * n)
RandomBelow(tape, k, n) == (Rnd(tape, k) * n) \div RandDen

\* Phaser.Math.Between(min, max) = Math.floor(Math.random() * (max - min + 1) + min)
Between(tape, k, min, max) == min + RandomBelow(tape, k, max - min + 1)

(***************************************************************************)
(* Tile layers.  tiles maps the cells written so far to their index; every *)
(* other cell holds the layer's fill.  f @@ g is g overwritten by f.       *)
(***************************************************************************)
Cells == (0..(DungeonWidth - 1)) \X (0..(DungeonHeight - 1))

InLayerBounds(x, y) == x \in 0..(DungeonWidth - 1) /\ y \in 0..(DungeonHeight - 1)

NoTiles == [c \in {} |-> EmptyIndex]

BlankLayer(fill) == [fill |-> fill, tiles |-> NoTiles, collides |-> {}, fillCollides |-> FALSE]

IndexAt(layer, c) == IF c \in DOMAIN layer.tiles THEN layer.tiles[c] ELSE layer.fill

CollidesAt(layer, c) == IF c \in DOMAIN layer.tiles THEN c \in layer.collides ELSE layer.fillCollides

\* layer.putTileAt(index, x, y): a cell outside the layer is left alone.
PutTileAt(tiles, index, x, y) ==
    IF InLayerBounds(x, y) THEN (<<x, y>> :> index) @@ tiles ELSE tiles

\* layer.putTilesAt(pattern, x, y): pattern[row][col] goes to (x + col, y + row).
PutTilesAt(tiles, pattern, x, y) ==
    LET cells == { c \in { <<x + tx - 1, y + ty - 1>> : tx \in 1..Len(pattern[1]), ty \in 1..Len(pattern) } :
                     InLayerBounds(c[1], c[2]) }
    IN  [c \in cells |-> pattern[c[2] - y + 1][c[1] - x + 1]] @@ tiles

RECURSIVE SumWeights(_, _)
SumWeights(alts, j) == IF j = 0 THEN 0 ELSE alts[j].weight + SumWeights(alts, j - 1)

\* One cell of weightedRandomize: rand = Math.random() * weightTotal picks the first
\* alternative whose running weight sum reaches rand; an array alternative takes a
\* second draw.
WeightedPick(alts, tape, k) ==
    LET total == SumWeights(alts, Len(alts))
        r == Rnd(tape, k)
        j == CHOOSE a \in 1..Len(alts) :
                /\ r * total <= SumWeights(alts, a) * RandDen
                /\ \A i \in 1..(a - 1) : r * total > SumWeights(alts, i) * RandDen
        chosen == alts[j].index
    IN  IF Len(chosen) > 1
        THEN chosen[RandomBelow(tape, k + 1, Len(chosen)) + 1]
        ELSE chosen[1]

Max(a, b) == IF a >= b THEN a ELSE b

\* layer.weightedRandomize(alts, x, y, width, height): the rectangle is clipped to the
\* layer and its cells are drawn row by row, from slot k on.
WeightedRandomize(tiles, alts, x, y, width, height, tape, k) ==
    LET x0 == Max(x, 0)
        y0 == Max(y, 0)
        w1 == IF x < 0 THEN width + x ELSE width
        h1 == IF y < 0 THEN height + y ELSE height
        w == IF x0 + w1 > DungeonWidth THEN Max(DungeonWidth - x0, 0) ELSE Max(w1, 0)
        h == IF y0 + h1 > DungeonHeight THEN Max(DungeonHeight - y0, 0) ELSE Max(h1, 0)
    IN  [c \in (x0..(x0 + w - 1)) \X (y0..(y0 + h - 1)) |->
            WeightedPick(alts, tape, k + 2 * ((c[2] - y0) * w + (c[1] - x0)))] @@ tiles

(***************************************************************************)
(* Rooms of the dungeon generator: [x, y, width, height, doors], doors in  *)
(* coordinates relative to the room's origin.                              *)
(***************************************************************************)
Left(room) == room.x
Right(room) == room.x + room.width - 1
Top(room) == room.y
Bottom(room) == room.y + room.height - 1
CenterX(room) == room.x + (room.width \div 2)
CenterY(room) == room.y + (room.height \div 2)

RoomCells(room) == (Left(room)..Right(room)) \X (Top(room)..Bottom(room))

\* The slots of one room's cells.
RoomSlots(room) == 2 * room.width * room.height

(***************************************************************************)
(* create, lines 92-170: the painting of one room.                         *)
(***************************************************************************)
\* PaintWalls with the top wall one tile too long: it runs over the top right corner.
PaintWallsLongTop(tiles, room, tape, k) ==
    LET inner == 2 * (room.width - 2) * (room.height - 2)
        across == 2 * (room.width - 2)
        down == 2 * (room.height - 2)
        floor == WeightedRandomize(tiles, TILES.FLOOR, room.x + 1, room.y + 1,
                                   room.width - 2, room.height - 2, tape, k)
        c1 == PutTileAt(floor, TILES.WALL.TOP_LEFT, Left(room), Top(room))
        c2 == PutTileAt(c1, TILES.WALL.TOP_RIGHT, Right(room), Top(room))
        c3 == PutTileAt(c2, TILES.WALL.BOTTOM_RIGHT, Right(room), Bottom(room))
        c4 == PutTileAt(c3, TILES.WALL.BOTTOM_LEFT, Left(room), Bottom(room))
        top == WeightedRandomize(c4, TILES.WALL.TOP, Left(room) + 1, Top(room),
                                 room.width - 1, 1, tape, k + inner)
        bottom == WeightedRandomize(top, TILES.WALL.BOTTOM, Left(room) + 1, Bottom(room),
                                    room.width - 2, 1, tape, k + inner + across)
        left == WeightedRandomize(bottom, TILES.WALL.LEFT, Left(room), Top(room) + 1,
                                  1, room.height - 2, tape, k + inner + 2 * across)
    IN  WeightedRandomize(left, TILES.WALL.RIGHT, Right(room), Top(room) + 1,
                          1, room.height - 2, tape, k + inner + 2 * across + down)

\* Floor, corners and the four walls (lines 96-138).
PaintWalls(tiles, room, tape, k) ==
    LET inner == 2 * (room.width - 2) * (room.height - 2)
        across == 2 * (room.width - 2)
        down == 2 * (room.height - 2)
        floor == WeightedRandomize(tiles, TILES.FLOOR, room.x + 1, room.y + 1,
                                   room.width - 2, room.height - 2, tape, k)
        c1 == PutTileAt(floor, TILES.WALL.TOP_LEFT, Left(room), Top(room))
        c2 == PutTileAt(c1, TILES.WALL.TOP_RIGHT, Right(room), Top(room))
        c3 == PutTileAt(c2, TILES.WALL.BOTTOM_RIGHT, Right(room), Bottom(room))
        c4 == PutTileAt(c3, TILES.WALL.BOTTOM_LEFT, Left(room), Bottom(room))
        top == WeightedRandomize(c4, TILES.WALL.TOP, Left(room) + 1, Top(room),
                                 room.width - 2, 1, tape, k + inner)
        bottom == WeightedRandomize(top, TILES.WALL.BOTTOM, Left(room) + 1, Bottom(room),
                                    room.width - 2, 1, tape, k + inner + across)
        left == WeightedRandomize(bottom, TILES.WALL.LEFT, Left(room), Top(room) + 1,
                                  1, room.height - 2, tape, k + inner + 2 * across)
    IN  WeightedRandomize(left, TILES.WALL.RIGHT, Right(room), Top(room) + 1,
                          1, room.height - 2, tape, k + inner + 2 * across + down)

NoStamp == [edge |-> "none", pattern |-> << <<>> >>, x |-> 0, y |-> 0]

\* DoorStamp with the left and right edges tested before the top and bottom ones.
DoorStampSidesFirst(room, door) ==
    IF door.x = 0
    THEN [edge |-> "left", pattern |-> TILES.DOOR.LEFT, x |-> room.x + door.x, y |-> room.y + door.y - 1]
    ELSE IF door.x = room.width - 1
    THEN [edge |-> "right", pattern |-> TILES.DOOR.RIGHT, x |-> room.x + door.x, y |-> room.y + door.y - 1]
    ELSE IF door.y = 0
    THEN [edge |-> "top", pattern |-> TILES.DOOR.TOP, x |-> room.x + door.x - 1, y |-> room.y + door.y]
    ELSE IF door.y = room.height - 1
    THEN [edge |-> "bottom", pattern |-> TILES.DOOR.BOTTOM, x |-> room.x + door.x - 1, y |-> room.y + door.y]
    ELSE NoStamp

\* The pattern stamped for one door and where it is anchored (lines 144-168).
DoorStamp(room, door) ==
    IF door.y = 0
    THEN [edge |-> "top", pattern |-> TILES.DOOR.TOP, x |-> room.x + door.x - 1, y |-> room.y + door.y]
    ELSE IF door.y = room.height - 1
    THEN [edge |-> "bottom", pattern |-> TILES.DOOR.BOTTOM, x |-> room.x + door.x - 1, y |-> room.y + door.y]
    ELSE IF door.x = 0
    THEN [edge |-> "left", pattern |-> TILES.DOOR.LEFT, x |-> room.x + door.x, y |-> room.y + door.y - 1]
    ELSE IF door.x = room.width - 1
    THEN [edge |-> "right", pattern |-> TILES.DOOR.RIGHT, x |-> room.x + door.x, y |-> room.y + door.y - 1]
    ELSE NoStamp

\* The stamps of a room's doors, in the order of getDoorLocations().
DoorStamps(room) == [i \in 1..Len(room.doors) |-> DoorStamp(room, room.doors[i])]

RECURSIVE PutStamps(_, _, _)
PutStamps(tiles, stamps, i) ==
    IF i > Len(stamps) THEN tiles
    ELSE PutStamps(IF stamps[i].edge = "none" THEN tiles
                   ELSE PutTilesAt(tiles, stamps[i].pattern, stamps[i].x, stamps[i].y),
                   stamps, i + 1)

PaintRoom(tiles, room, tape, k) ==
    PutStamps(PaintWalls(tiles, room, tape, k), DoorStamps(room), 1)

(***************************************************************************)
(* Dungeons of the generator (@mikewesthad/dungeon with the options of     *)
(* lines 50-58): rooms of odd sizes from RoomMin up that do not overlap,   *)
(* each attached to the previous one through a pair of facing doors that   *)
(* keep doorPadding = 2 tiles from the corners.  Row puts the rooms side   *)
(* by side, Col one below the other; the profile p varies the sizes.       *)
(***************************************************************************)
SizeOf(k) == RoomMin + 2 * (k % 2)

RoomWidth(i, p) == SizeOf(i + p)
RoomHeight(i, p) == SizeOf(i + (p \div 2))
DoorOffset(i, p) == 2 + ((i + p) % 3)

RECURSIVE RowX(_, _)
RowX(i, p) == IF i = 1 THEN 1 ELSE RowX(i - 1, p) + RoomWidth(i - 1, p)

RECURSIVE ColY(_, _)
ColY(i, p) == IF i = 1 THEN 1 ELSE ColY(i - 1, p) + RoomHeight(i - 1, p)

RowRoom(i, n, p) ==
    [x |-> RowX(i, p), y |-> 1, width |-> RoomWidth(i, p), height |-> RoomHeight(i, p),
     doors |-> (IF i > 1 THEN << [x |-> 0, y |-> DoorOffset(i - 1, p)] >> ELSE <<>>)
               \o (IF i < n THEN << [x |-> RoomWidth(i, p) - 1, y |-> DoorOffset(i, p)] >> ELSE <<>>)]

ColRoom(i, n, p) ==
    [x |-> 1, y |-> ColY(i, p), width |-> RoomWidth(i, p), height |-> RoomHeight(i, p),
     doors |-> (IF i > 1 THEN << [x |-> DoorOffset(i - 1, p), y |-> 0] >> ELSE <<>>)
               \o (IF i < n THEN << [x |-> DoorOffset(i, p), y |-> RoomHeight(i, p) - 1] >> ELSE <<>>)]

Row(n, p) == [width |-> DungeonWidth, height |-> DungeonHeight,
              rooms |-> [i \in 1..n |-> RowRoom(i, n, p)]]

Col(n, p) == [width |-> DungeonWidth, height |-> DungeonHeight,
              rooms |-> [i \in 1..n |-> ColRoom(i, n, p)]]

Dungeons == { Row(n, p) : n \in 2..MaxRooms, p \in 0..(Profiles - 1) }
            \cup { Col(n, p) : n \in 2..MaxRooms, p \in 0..(Profiles - 1) }

NoDungeon == [width |-> DungeonWidth, height |-> DungeonHeight, rooms |-> <<>>]

\* dungeon.getRoomAt(x, y): the number of the room that holds the cell, or None.
GetRoomAt(d, x, y) ==
    LET at == { i \in 1..Len(d.rooms) : <<x, y>> \in RoomCells(d.rooms[i]) }
    IN  IF at = {} THEN None ELSE CHOOSE i \in at : \A j \in at : i <= j

(***************************************************************************)
(* create, lines 92-170: every room painted in generation order.           *)
(***************************************************************************)
RECURSIVE PaintRooms(_, _, _, _, _)
PaintRooms(tiles, rooms, i, tape, k) ==
    IF i > Len(rooms) THEN tiles
    ELSE PaintRooms(PaintRoom(tiles, rooms[i], tape, k), rooms, i + 1, tape,
                    k + RoomSlots(rooms[i]))

RECURSIVE PaintSlots(_, _)
PaintSlots(rooms, i) == IF i = 0 THEN 0 ELSE RoomSlots(rooms[i]) + PaintSlots(rooms, i - 1)

(***************************************************************************)
(* create, lines 176-182: start room, end room and prop rooms, as room     *)
(* numbers (positions in dungeon.rooms).                                   *)
(***************************************************************************)
RemoveAt(seq, i) == SubSeq(seq, 1, i - 1) \o SubSeq(seq, i + 1, Len(seq))

\* RemoveRandomElement drawing a position of 0..length instead of 0..length-1.
RemoveRandomElementPastEnd(seq, tape, k) ==
    LET i == RandomBelow(tape, k, Len(seq) + 1) + 1
    IN  IF i > Len(seq) THEN None ELSE i

\* Phaser.Utils.Array.RemoveRandomElement: the position of the element it splices
\* out, floor(random * length); an empty array gives undefined (None).
RemoveRandomElement(seq, tape, k) ==
    LET i == RandomBelow(tape, k, Len(seq)) + 1
    IN  IF i > Len(seq) THEN None ELSE i

Swap(seq, i, j) == [seq EXCEPT ![i] = seq[j], ![j] = seq[i]]

\* Phaser.Utils.Array.Shuffle: Fisher-Yates from the last element down, one draw each.
RECURSIVE Shuffle(_, _, _, _)
Shuffle(seq, i, tape, k) ==
    IF i <= 1 THEN seq
    ELSE Shuffle(Swap(seq, i, RandomBelow(tape, k, i) + 1), i - 1, tape, k + 1)

\* PropRoomCount rounding up.
PropRoomCountCeil(n) == (n * 9 + 9) \div 10

\* rooms.length * 0.9 as the end of slice(): the fraction is dropped.
PropRoomCount(n) == (n * 9) \div 10

\* rooms.shift()
StartRoom(n) == IF n = 0 THEN None ELSE 1

\* The rooms left after shift(): 2..n.
AfterShift(n) == [i \in 1..Max(n - 1, 0) |-> i + 1]

EndRoom(n, tape, k) ==
    LET at == RemoveRandomElement(AfterShift(n), tape, k)
    IN  IF at = None THEN None ELSE AfterShift(n)[at]

OtherRooms(n, tape, k) ==
    LET at == RemoveRandomElement(AfterShift(n), tape, k)
        rooms == IF at = None THEN AfterShift(n) ELSE RemoveAt(AfterShift(n), at)
    IN  SubSeq(Shuffle(rooms, Len(rooms), tape, k + 1), 1, PropRoomCount(Len(rooms)))

(***************************************************************************)
(* create, lines 188-234: the props of one prop room.                      *)
(***************************************************************************)
\* PropKind with the chest's test strict.
PropKindStrict(rand) ==
    IF 4 * rand < RandDen THEN "chest"
    ELSE IF 2 * rand <= RandDen THEN "pot"
    ELSE "towers"

PropKind(rand) ==
    IF 4 * rand <= RandDen THEN "chest"
    ELSE IF 2 * rand <= RandDen THEN "pot"
    ELSE "towers"

TowerAnchors(room) ==
    IF room.height >= 9
    THEN << <<CenterX(room) - 1, CenterY(room) + 1>>, <<CenterX(room) + 1, CenterY(room) + 1>>,
            <<CenterX(room) - 1, CenterY(room) - 2>>, <<CenterX(room) + 1, CenterY(room) - 2>> >>
    ELSE << <<CenterX(room) - 1, CenterY(room) - 1>>, <<CenterX(room) + 1, CenterY(room) - 1>> >>

RECURSIVE PutTowers(_, _, _)
PutTowers(tiles, anchors, i) ==
    IF i > Len(anchors) THEN tiles
    ELSE PutTowers(PutTilesAt(tiles, TILES.TOWER, anchors[i][1], anchors[i][2]), anchors, i + 1)

PlaceProp(tiles, room, tape, k) ==
    IF PropKind(Rnd(tape, k)) = "chest"
    THEN PutTileAt(tiles, TILES.CHEST, CenterX(room), CenterY(room))
    ELSE IF PropKind(Rnd(tape, k)) = "pot"
    THEN WeightedRandomize(tiles, TILES.POT,
                           Between(tape, k + 1, Left(room) + 2, Right(room) - 2),
                           Between(tape, k + 2, Top(room) + 2, Bottom(room) - 2),
                           1, 1, tape, k + 3)
    ELSE PutTowers(tiles, TowerAnchors(room), 1)

\* otherRooms.forEach
RECURSIVE PlaceProps(_, _, _, _, _, _)
PlaceProps(tiles, rooms, others, i, tape, k) ==
    IF i > Len(others) THEN tiles
    ELSE PlaceProps(PlaceProp(tiles, rooms[others[i]], tape, k), rooms, others, i + 1, tape, k + 5)

\* For each prop room its draw and the cells its step wrote.
PropLog(rooms, others, tape, k) ==
    [i \in 1..Len(others) |->
        [room |-> others[i], rand |-> Rnd(tape, k + 5 * (i - 1)),
         wrote |-> PlaceProp(NoTiles, rooms[others[i]], tape, k + 5 * (i - 1))]]

(***************************************************************************)
(* create, lines 236-239: collision by exclusion.                          *)
(***************************************************************************)
\* The indexes of the exclusion list.
Walkable == {EmptyIndex, 6, 7, 8, 26}

\* setCollision in place of setCollisionByExclusion: the listed indexes collide.
SetCollisionByInclusion(layer, indexes) ==
    [layer EXCEPT !.collides = { c \in DOMAIN layer.tiles : layer.tiles[c] \in indexes },
                  !.fillCollides = (layer.fill \in indexes)]

\* layer.setCollisionByExclusion(indexes): every tile whose index is not listed
\* collides from now on.
SetCollisionByExclusion(layer, indexes) ==
    [layer EXCEPT !.collides = { c \in DOMAIN layer.tiles : layer.tiles[c] \notin indexes },
                  !.fillCollides = (layer.fill \notin indexes)]

(***************************************************************************)
(* The room visibility tracker (./ts/tilemap-visibility.js).  The shadow   *)
(* layer maps the cells revealed so far to their alpha in tenths: 0 in the *)
(* active room, 5 in a room seen before; every other cell is opaque.       *)
(***************************************************************************)
Clear == 0 * 1
Dim == 5 * 1
Opaque == 10 * 1

NoShadow == [c \in {} |-> Opaque]

AlphaAt(shadow, c) == IF c \in DOMAIN shadow THEN shadow[c] ELSE Opaque

SetRoomAlpha(shadow, room, alpha) == [c \in RoomCells(room) |-> alpha] @@ shadow

\* SetActiveRoom that leaves the room it deactivates as it is.
SetActiveRoomNoDim(vis, rooms, room) ==
    IF room = vis.activeRoom THEN vis
    ELSE [activeRoom |-> room,
          shadow |-> IF room # None THEN SetRoomAlpha(vis.shadow, rooms[room], Clear)
                     ELSE vis.shadow]

\* SetActiveRoom that returns at once when it is given no room.
SetActiveRoomSkipsNone(vis, rooms, room) ==
    IF room = vis.activeRoom \/ room = None THEN vis
    ELSE [activeRoom |-> room,
          shadow |-> SetRoomAlpha(IF vis.activeRoom # None
                                  THEN SetRoomAlpha(vis.shadow, rooms[vis.activeRoom], Dim)
                                  ELSE vis.shadow,
                                  rooms[room], Clear)]

\* setActiveRoom(room), room a room number or None.
SetActiveRoom(vis, rooms, room) ==
    IF room = vis.activeRoom THEN vis
    ELSE [activeRoom |-> room,
          shadow |-> IF room # None
                     THEN SetRoomAlpha(IF vis.activeRoom # None
                                       THEN SetRoomAlpha(vis.shadow, rooms[vis.activeRoom], Dim)
                                       ELSE vis.shadow,
                                       rooms[room], Clear)
                     ELSE IF vis.activeRoom # None
                          THEN SetRoomAlpha(vis.shadow, rooms[vis.activeRoom], Dim)
                          ELSE vis.shadow]

(***************************************************************************)
(* The scene.                                                              *)
(***************************************************************************)
NoPlayer == [x |-> 0, y |-> 0, frozen |-> FALSE, alive |-> FALSE]
NoPlacement == [start |-> None, end |-> None, others |-> <<>>, props |-> <<>>]
NoFrame == [calls |-> 0, room |-> None, at |-> <<0, 0>>, goal |-> FALSE, n |-> 0]
NoRoom == [x |-> 0, y |-> 0, width |-> 0, height |-> 0, doors |-> <<>>]
NoProbe == [room |-> NoRoom, walls |-> NoTiles, stamps |-> <<>>, tiles |-> NoTiles]

\* The scene as its constructor leaves it.
Init ==
    /\ level = 0
    /\ hasPlayerReachedStairs = FALSE
    /\ dungeon = NoDungeon
    /\ groundLayer = BlankLayer(TILES.BLANK)
    /\ stuffLayer = BlankLayer(EmptyIndex)
    /\ shadowLayer = NoShadow
    /\ activeRoom = None
    /\ player = NoPlayer
    /\ stairsCallback = "none"
    /\ fadePending = FALSE
    /\ scene = "init"
    /\ placement = NoPlacement
    /\ frame = NoFrame
    /\ goalStarts = 0
    /\ fadesDone = 0
    /\ probe = NoProbe

\* create() with the dungeon d from the generator and the tape of Math.random().
\* Line 185 reads endRoom.centerX: with no end room it throws, and create stops with
\* the ground painted and nothing else done.
CreateWith(d, tape) ==
    LET n == Len(d.rooms)
        k == PaintSlots(d.rooms, n)
        end == EndRoom(n, tape, k)
        others == OtherRooms(n, tape, k)
    IN  /\ level' = level + 1
        /\ hasPlayerReachedStairs' = FALSE
        /\ dungeon' = d
        /\ shadowLayer' = NoShadow
        /\ activeRoom' = None
        /\ frame' = NoFrame
        /\ goalStarts' = 0
        /\ UNCHANGED <<fadePending, fadesDone, probe>>
        /\ IF end = None
           THEN /\ groundLayer' = [BlankLayer(TILES.BLANK) EXCEPT
                                     !.tiles = PaintRooms(NoTiles, d.rooms, 1, tape, 0)]
                /\ stuffLayer' = BlankLayer(EmptyIndex)
                /\ placement' = [start |-> StartRoom(n), end |-> None, others |-> <<>>,
                                 props |-> <<>>]
                /\ scene' = "crashed"
                /\ UNCHANGED <<player, stairsCallback>>
           ELSE /\ groundLayer' = SetCollisionByExclusion(
                                    [BlankLayer(TILES.BLANK) EXCEPT
                                       !.tiles = PaintRooms(NoTiles, d.rooms, 1, tape, 0)],
                                    Walkable)
                /\ stuffLayer' = SetCollisionByExclusion(
                                   [BlankLayer(EmptyIndex) EXCEPT
                                      !.tiles = PlaceProps(
                                                  PutTileAt(NoTiles, TILES.STAIRS,
                                                            CenterX(d.rooms[end]), CenterY(d.rooms[end])),
                                                  d.rooms, others, 1, tape, k + n)],
                                   Walkable)
                /\ placement' = [start |-> StartRoom(n), end |-> end, others |-> others,
                                 props |-> PropLog(d.rooms, others, tape, k + n)]
                /\ stairsCallback' = "goal"
                /\ player' = [x |-> CenterX(d.rooms[StartRoom(n)]),
                              y |-> CenterY(d.rooms[StartRoom(n)]),
                              frozen |-> FALSE, alive |-> TRUE]
                /\ scene' = "running"

\* The dungeons and tapes of the played game.
GameDungeons == { Row(2, 0), Col(3, 1) }
GameTapes == { t \in Tapes : t.seed \in {2, 5} /\ t.step = 5 }

\* The scene is started, or restarted after a fade: create runs.
Create ==
    /\ scene \in {"init", "restarting"}
    /\ level < MaxLevel
    /\ \E d \in GameDungeons, tape \in GameTapes : CreateWith(d, tape)

\* The first level, over every modelled dungeon and every tape.
CreateAny ==
    /\ scene = "init"
    /\ \E d \in Dungeons, tape \in Tapes : CreateWith(d, tape)

\* The cells player.update() can move the player's body to in one frame: its own
\* cell or a neighbour that collides in neither layer (the colliders of lines 264-265).
Reach(p) ==
    { c \in { <<p.x, p.y>>, <<p.x + 1, p.y>>, <<p.x - 1, p.y>>, <<p.x, p.y + 1>>, <<p.x, p.y - 1>> } :
        /\ InLayerBounds(c[1], c[2])
        /\ (c = <<p.x, p.y>> \/ (~CollidesAt(groundLayer, c) /\ ~CollidesAt(stuffLayer, c))) }

\* Update without the early return of line 291.
UpdateNoEarlyReturn ==
    /\ scene = "running"
    /\ \E c \in Reach(player) :
          \E vis \in { SetActiveRoom([activeRoom |-> activeRoom, shadow |-> shadowLayer],
                                     dungeon.rooms, GetRoomAt(dungeon, c[1], c[2])) } :
              /\ player' = [player EXCEPT !.x = c[1], !.y = c[2]]
              /\ activeRoom' = vis.activeRoom
              /\ shadowLayer' = vis.shadow
              /\ frame' = [calls |-> 1, room |-> GetRoomAt(dungeon, c[1], c[2]), at |-> c,
                           goal |-> hasPlayerReachedStairs, n |-> 1 - frame.n]
    /\ UNCHANGED <<level, hasPlayerReachedStairs, dungeon, groundLayer, stuffLayer,
                   stairsCallback, fadePending, scene, placement, goalStarts, fadesDone, probe>>

\* update(time, delta): one frame.
Update ==
    /\ scene = "running"
    /\ IF hasPlayerReachedStairs
       THEN /\ frame' = [calls |-> 0, room |-> None, at |-> <<player.x, player.y>>,
                         goal |-> TRUE, n |-> 1 - frame.n]
            /\ UNCHANGED <<player, activeRoom, shadowLayer>>
       ELSE \E c \in Reach(player) :
              \E vis \in { SetActiveRoom([activeRoom |-> activeRoom, shadow |-> shadowLayer],
                                         dungeon.rooms, GetRoomAt(dungeon, c[1], c[2])) } :
                  /\ player' = [player EXCEPT !.x = c[1], !.y = c[2]]
                  /\ activeRoom' = vis.activeRoom
                  /\ shadowLayer' = vis.shadow
                  /\ frame' = [calls |-> 1, room |-> GetRoomAt(dungeon, c[1], c[2]), at |-> c,
                               goal |-> FALSE, n |-> 1 - frame.n]
    /\ UNCHANGED <<level, hasPlayerReachedStairs, dungeon, groundLayer, stuffLayer,
                   stairsCallback, fadePending, scene, placement, goalStarts, fadesDone, probe>>

\* The player's body touches a stairs tile.
TouchesStairs ==
    \E c \in DOMAIN stuffLayer.tiles :
        /\ stuffLayer.tiles[c] = TILES.STAIRS
        /\ (c[1] - player.x) * (c[1] - player.x) + (c[2] - player.y) * (c[2] - player.y) <= 1

\* StairsOverlap whose callback does not replace itself (line 244 left out).
StairsOverlapNotReplaced ==
    /\ scene = "running"
    /\ player.alive
    /\ TouchesStairs
    /\ hasPlayerReachedStairs' = TRUE
    /\ player' = [player EXCEPT !.frozen = TRUE]
    /\ fadePending' = TRUE
    /\ goalStarts' = goalStarts + 1
    /\ UNCHANGED <<level, dungeon, groundLayer, stuffLayer, shadowLayer, activeRoom,
                   stairsCallback, scene, placement, frame, fadesDone, probe>>

\* The tile index callback of TILES.STAIRS (lines 241-255) is called.
StairsOverlap ==
    /\ scene = "running"
    /\ player.alive
    /\ TouchesStairs
    /\ IF stairsCallback = "goal"
       THEN /\ stairsCallback' = "noop"
            /\ hasPlayerReachedStairs' = TRUE
            /\ player' = [player EXCEPT !.frozen = TRUE]
            /\ fadePending' = TRUE
            /\ goalStarts' = goalStarts + 1
       ELSE UNCHANGED <<stairsCallback, hasPlayerReachedStairs, player, fadePending, goalStarts>>
    /\ UNCHANGED <<level, dungeon, groundLayer, stuffLayer, shadowLayer, activeRoom,
                   scene, placement, frame, fadesDone, probe>>

\* "camerafadeoutcomplete": the player is destroyed and the scene restarts.
FadeComplete ==
    /\ scene = "running"
    /\ fadePending
    /\ fadePending' = FALSE
    /\ player' = [player EXCEPT !.alive = FALSE]
    /\ scene' = "restarting"
    /\ fadesDone' = fadesDone + 1
    /\ UNCHANGED <<level, hasPlayerReachedStairs, dungeon, groundLayer, stuffLayer,
                   shadowLayer, activeRoom, stairsCallback, placement, frame, goalStarts, probe>>

Next == Create \/ Update \/ StairsOverlap \/ FadeComplete

Spec == Init /\ [][Next]_vars

NextPaint == CreateAny

SpecPaint == Init /\ [][NextPaint]_vars

(***************************************************************************)
(* The painter on one room of its own: any origin next to the layer's      *)
(* corner, any size from 3 up, one door anywhere on the boundary.          *)
(***************************************************************************)
Boundary(width, height) ==
    { d \in [x : 0..(width - 1), y : 0..(height - 1)] :
        d.x = 0 \/ d.x = width - 1 \/ d.y = 0 \/ d.y = height - 1 }

ProbeRooms ==
    UNION { { [x |-> x, y |-> y, width |-> w, height |-> h, doors |-> <<d>>] :
                d \in Boundary(w, h) } :
            x \in 0..1, y \in 0..1, w \in 3..MaxProbeSize, h \in 3..MaxProbeSize }

ProbeTapes == { t \in Tapes : t.seed \in {0, 7, RandDen - 1} /\ t.step \in {1, 5} }

\* The body of rooms.forEach (lines 92-170) for one room on an empty ground layer.
PaintOne ==
    /\ probe = NoProbe
    /\ \E room \in ProbeRooms, tape \in ProbeTapes :
          probe' = [room |-> room,
                    walls |-> PaintWalls(NoTiles, room, tape, 0),
                    stamps |-> DoorStamps(room),
                    tiles |-> PaintRoom(NoTiles, room, tape, 0)]
    /\ UNCHANGED <<level, hasPlayerReachedStairs, dungeon, groundLayer, stuffLayer,
                   shadowLayer, activeRoom, player, stairsCallback, fadePending, scene,
                   placement, frame, goalStarts, fadesDone>>

NextRoom == PaintOne

SpecRoom == Init /\ [][NextRoom]_vars

(***************************************************************************)
(* The visibility tracker called with any room of the level or with no     *)
(* room, in any order.                                                     *)
(***************************************************************************)
VisDungeons == { Row(n, 1) : n \in 2..MaxRooms } \cup { Col(n, 2) : n \in 2..MaxRooms }

\* The first level of one of these dungeons.
CreateVis ==
    /\ scene = "init"
    /\ \E d \in VisDungeons, tape \in GameTapes : CreateWith(d, tape)

CallSetActiveRoom ==
    /\ scene = "running"
    /\ \E room \in 0..Len(dungeon.rooms) :
         \E vis \in { SetActiveRoom([activeRoom |-> activeRoom, shadow |-> shadowLayer],
                                    dungeon.rooms, room) } :
             /\ activeRoom' = vis.activeRoom
             /\ shadowLayer' = vis.shadow
             /\ frame' = [calls |-> 1, room |-> room, at |-> <<player.x, player.y>>,
                          goal |-> FALSE, n |-> 1 - frame.n]
    /\ UNCHANGED <<level, hasPlayerReachedStairs, dungeon, groundLayer, stuffLayer, player,
                   stairsCallback, fadePending, scene, placement, goalStarts, fadesDone, probe>>

NextVis == CreateVis \/ CallSetActiveRoom

SpecVis == Init /\ [][NextVis]_vars

(***************************************************************************)
(* Properties of the painting of one room (SpecRoom).                      *)
(***************************************************************************)
\* C1: for a room of width and height >= 3 the floor, corner and wall steps write
\* exactly the cells of the room's rectangle: a floor index to every interior cell,
\* the four corner variants to the four corners, and to every other cell of an edge
\* an index of the wall role of that edge.
C1_FloorCornersWalls ==
    probe.room # NoRoom =>
        LET room == probe.room
            t == probe.walls
            l == room.x
            r == room.x + room.width - 1
            tp == room.y
            b == room.y + room.height - 1
        IN  /\ DOMAIN t = (l..r) \X (tp..b)
            /\ \A x \in l..r, y \in tp..b :
                  IF l < x /\ x < r /\ tp < y /\ y < b THEN t[<<x, y>>] \in RoleIndexes(TILES.FLOOR)
                  ELSE IF x = l /\ y = tp THEN t[<<x, y>>] = TILES.WALL.TOP_LEFT
                  ELSE IF x = r /\ y = tp THEN t[<<x, y>>] = TILES.WALL.TOP_RIGHT
                  ELSE IF x = r /\ y = b THEN t[<<x, y>>] = TILES.WALL.BOTTOM_RIGHT
                  ELSE IF x = l /\ y = b THEN t[<<x, y>>] = TILES.WALL.BOTTOM_LEFT
                  ELSE IF y = tp THEN t[<<x, y>>] \in RoleIndexes(TILES.WALL.TOP)
                  ELSE IF y = b THEN t[<<x, y>>] \in RoleIndexes(TILES.WALL.BOTTOM)
                  ELSE IF x = l THEN t[<<x, y>>] \in RoleIndexes(TILES.WALL.LEFT)
                  ELSE t[<<x, y>>] \in RoleIndexes(TILES.WALL.RIGHT)

\* A room 3 wide and 5 high was painted, with a floor alternative drawn in its interior
\* and a wall alternative on its left edge.
C1_Witness ==
    /\ probe.room # NoRoom
    /\ probe.room.width = 3
    /\ probe.room.height = 5
    /\ \E c \in DOMAIN probe.walls : probe.walls[c] \in {7, 8, 26}
    /\ \E c \in DOMAIN probe.walls : probe.walls[c] \in {76, 95, 114}

\* C2: the pattern stamped for a door at (dx, dy) of a room at (x, y) and its anchor
\* follow the tests dy = 0 (top), dy = height - 1 (bottom), dx = 0 (left),
\* dx = width - 1 (right) in that order; a boundary door gets exactly one pattern, a
\* corner door the top or bottom one, and the ground holds the pattern at the anchor
\* and is otherwise as the walls left it.
C2_DoorStamp ==
    probe.room # NoRoom =>
        LET room == probe.room
            d == room.doors[1]
            s == probe.stamps[1]
            edge == IF d.y = 0 THEN "top"
                    ELSE IF d.y = room.height - 1 THEN "bottom"
                    ELSE IF d.x = 0 THEN "left"
                    ELSE "right"
            stamped == { c \in Cells : /\ c[1] - s.x \in 0..(Len(s.pattern[1]) - 1)
                                       /\ c[2] - s.y \in 0..(Len(s.pattern) - 1) }
        IN  /\ Len(probe.stamps) = 1
            /\ s.edge = edge
            /\ s.pattern = (CASE edge = "top" -> TILES.DOOR.TOP
                              [] edge = "bottom" -> TILES.DOOR.BOTTOM
                              [] edge = "left" -> TILES.DOOR.LEFT
                              [] edge = "right" -> TILES.DOOR.RIGHT)
            /\ <<s.x, s.y>> = (IF edge \in {"top", "bottom"}
                               THEN <<room.x + d.x - 1, room.y + d.y>>
                               ELSE <<room.x + d.x, room.y + d.y - 1>>)
            /\ (d.x \in {0, room.width - 1} /\ d.y \in {0, room.height - 1})
                  => s.edge \in {"top", "bottom"}
            /\ DOMAIN probe.tiles = DOMAIN probe.walls \cup stamped
            /\ \A c \in DOMAIN probe.tiles :
                  probe.tiles[c] = IF c \in stamped
                                   THEN s.pattern[c[2] - s.y + 1][c[1] - s.x + 1]
                                   ELSE probe.walls[c]

\* The door of the painted room is at its bottom right corner and got the bottom
\* pattern, the door's own cell holding the pattern's middle tile.
C2_Witness ==
    /\ probe.room # NoRoom
    /\ probe.room.doors[1] = [x |-> probe.room.width - 1, y |-> probe.room.height - 1]
    /\ probe.stamps[1].edge = "bottom"
    /\ probe.tiles[<<Right(probe.room), Bottom(probe.room)>>] = TILES.DOOR.BOTTOM[1][2]

(***************************************************************************)
(* Properties of create (SpecPaint).                                       *)
(***************************************************************************)
\* C3: in a level of N >= 2 rooms the start room is room 1 of the generation order
\* (index 0), the end room is one of the other N - 1, there are floor((N - 2) * 0.9)
\* prop rooms, pairwise distinct, none of them the end room or the start room; the
\* player stands in the start room, the stairs are in the end room and the props in
\* the prop rooms.
C3_RoomPartition ==
    scene = "running" =>
        LET n == Len(dungeon.rooms)
            o == placement.others
            stuff == stuffLayer.tiles
        IN  /\ n >= 2
            /\ placement.start = 1
            /\ placement.end \in 2..n
            /\ Len(o) = ((n - 2) * 9) \div 10
            /\ \A i \in 1..Len(o) : o[i] \in 2..n /\ o[i] # placement.end
            /\ \A i, j \in 1..Len(o) : i # j => o[i] # o[j]
            /\ <<player.x, player.y>> = <<CenterX(dungeon.rooms[1]), CenterY(dungeon.rooms[1])>>
            /\ { c \in DOMAIN stuff : stuff[c] = TILES.STAIRS }
                  = { <<CenterX(dungeon.rooms[placement.end]), CenterY(dungeon.rooms[placement.end])>> }
            /\ \A i \in 1..n :
                  (\E c \in DOMAIN stuff \cap RoomCells(dungeon.rooms[i]) : stuff[c] # TILES.STAIRS)
                     <=> (\E j \in 1..Len(o) : o[j] = i)

\* A level of 5 rooms with 2 prop rooms, so that one room is left empty.
C3_Witness ==
    /\ scene = "running"
    /\ Len(dungeon.rooms) = 5
    /\ Len(placement.others) = 2
    /\ \E i \in 2..5 : /\ i # placement.end
                       /\ DOMAIN stuffLayer.tiles \cap RoomCells(dungeon.rooms[i]) = {}

C8_PaintAllOrNothing ==
    /\ scene # "crashed"
    /\ scene = "init" => groundLayer.tiles = NoTiles /\ stuffLayer.tiles = NoTiles
    /\ scene = "running" =>
          /\ \A i \in 1..Len(dungeon.rooms) : RoomCells(dungeon.rooms[i]) \subseteq DOMAIN groundLayer.tiles
          /\ \E c \in DOMAIN stuffLayer.tiles : stuffLayer.tiles[c] = TILES.STAIRS
          /\ \A j \in 1..Len(placement.others) :
                DOMAIN stuffLayer.tiles \cap RoomCells(dungeon.rooms[placement.others[j]]) # {}
          /\ groundLayer.collides # {}
          /\ stuffLayer.collides # {}

\* The smallest level the generator supplies, two rooms: create has painted both and
\* put the stairs in the second.
C8_Witness ==
    /\ scene = "running"
    /\ Len(dungeon.rooms) = 2
    /\ placement.end = 2
    /\ DOMAIN stuffLayer.tiles = { <<CenterX(dungeon.rooms[2]), CenterY(dungeon.rooms[2])>> }
    /\ RoomCells(dungeon.rooms[1]) \cup RoomCells(dungeon.rooms[2]) = DOMAIN groundLayer.tiles

(***************************************************************************)
(* Properties of the visibility tracker and of the frames (Spec, SpecVis). *)
(***************************************************************************)
\* C6: every room is Unseen (opaque), PreviouslySeen (dim) or Active (clear), and only
\* the active room is Active; a frame's setActiveRoom(R) with R not the active room
\* dims every cell of the room that was active, clears every cell of R and leaves all
\* other cells as they were; with R the active room it changes nothing, so a second
\* consecutive call gives the grid of the first.
C6_SetActiveRoom ==
    /\ [](\A i \in 1..Len(dungeon.rooms) :
            /\ Cardinality({ AlphaAt(shadowLayer, c) : c \in RoomCells(dungeon.rooms[i]) }) = 1
            /\ (\A c \in RoomCells(dungeon.rooms[i]) : AlphaAt(shadowLayer, c) = Clear) <=> activeRoom = i)
    /\ [][(frame' # frame /\ frame'.calls = 1) =>
            IF frame'.room = activeRoom
            THEN activeRoom' = activeRoom /\ shadowLayer' = shadowLayer
            ELSE /\ activeRoom' = frame'.room
                 /\ \A c \in Cells :
                       AlphaAt(shadowLayer', c) =
                          IF frame'.room # None /\ c \in RoomCells(dungeon.rooms[frame'.room]) THEN Clear
                          ELSE IF activeRoom # None /\ c \in RoomCells(dungeon.rooms[activeRoom]) THEN Dim
                          ELSE AlphaAt(shadowLayer, c)]_vars

\* The player went from the start room A into room B and back: A is active and clear
\* again and B is dim.
C6_Witness ==
    /\ scene = "running"
    /\ frame.calls = 1
    /\ frame.room = 1
    /\ activeRoom = 1
    /\ \A c \in RoomCells(dungeon.rooms[1]) : AlphaAt(shadowLayer, c) = Clear
    /\ \A c \in RoomCells(dungeon.rooms[2]) : AlphaAt(shadowLayer, c) = Dim

\* C7: setActiveRoom with no room dims the room that was active, if any, leaves every
\* other cell alone and leaves no room active; a call with a room after it makes that
\* room active and clear as usual.
C7_NoRoom ==
    [][(frame' # frame /\ frame'.calls = 1) =>
         /\ frame'.room = None =>
               /\ activeRoom' = None
               /\ \A c \in Cells :
                     AlphaAt(shadowLayer', c) =
                        IF activeRoom # None /\ c \in RoomCells(dungeon.rooms[activeRoom]) THEN Dim
                        ELSE AlphaAt(shadowLayer, c)
               /\ \A i \in 1..Len(dungeon.rooms) :
                     \E c \in RoomCells(dungeon.rooms[i]) : AlphaAt(shadowLayer', c) # Clear
         /\ (activeRoom = None /\ frame'.room # None) =>
               /\ activeRoom' = frame'.room
               /\ \A c \in Cells :
                     AlphaAt(shadowLayer', c) =
                        IF c \in RoomCells(dungeon.rooms[frame'.room]) THEN Clear
                        ELSE AlphaAt(shadowLayer, c)]_vars

\* setActiveRoom was just called with no room while room 2 was active: no room is
\* active and room 2 is dim.
C7_Witness ==
    /\ scene = "running"
    /\ frame.calls = 1
    /\ frame.room = None
    /\ activeRoom = None
    /\ \A c \in RoomCells(dungeon.rooms[2]) : AlphaAt(shadowLayer, c) = Dim

\* C9 as stated: after every frame of a running level setActiveRoom has been called
\* exactly once in that frame, with the room that holds the player's cell.
C9_EveryFrameCalls ==
    (scene = "running" /\ frame # NoFrame) =>
        /\ frame.calls = 1
        /\ frame.room = GetRoomAt(dungeon, player.x, player.y)
        /\ activeRoom = frame.room

\* C9 as amended: a frame of a running level whose goal flag is false calls
\* setActiveRoom exactly once, with the room that holds the player's cell; a frame
\* whose goal flag is true returns before the call and leaves the tracker alone.
C9_FrameCallsUntilGoal ==
    [][(frame' # frame /\ scene = "running" /\ scene' = "running") =>
          IF hasPlayerReachedStairs
          THEN frame'.calls = 0 /\ activeRoom' = activeRoom /\ shadowLayer' = shadowLayer
          ELSE /\ frame'.calls = 1
               /\ frame'.room = GetRoomAt(dungeon, player'.x, player'.y)
               /\ activeRoom' = frame'.room]_vars

\* A frame found the player in room 2 and called setActiveRoom with it.
C9_Witness ==
    /\ scene = "running"
    /\ ~hasPlayerReachedStairs
    /\ frame.calls = 1
    /\ frame.room = 2
    /\ GetRoomAt(dungeon, player.x, player.y) = 2
    /\ activeRoom = 2

\* C10 as stated: once the first level is created the goal flag is true exactly from
\* the level's first stairs overlap on, the goal transition has started at most once
\* in the level, and the level counter is always 1 plus the number of completed fades.
C10_LevelCountsFades ==
    scene # "init" =>
        /\ hasPlayerReachedStairs <=> goalStarts >= 1
        /\ goalStarts <= 1
        /\ level = 1 + fadesDone

\* C10 as amended: the goal flag is true exactly from the level's first stairs overlap
\* until the next create, the goal transition starts at most once per level and nothing
\* of it changes again before the fade completes, the level counter rises by exactly 1
\* with each created dungeon and by nothing else, and it is 1 plus the number of
\* completed fades while a level runs, and the number of completed fades between a
\* fade's completion and the next create.
C10_GoalOncePerLevel ==
    /\ [](scene # "init" =>
            /\ hasPlayerReachedStairs <=> goalStarts >= 1
            /\ goalStarts <= 1
            /\ scene = "running" => level = 1 + fadesDone
            /\ scene = "restarting" => level = fadesDone)
    /\ [][/\ level' = (IF scene # "running" /\ scene' = "running" THEN level + 1 ELSE level)
          /\ (hasPlayerReachedStairs /\ scene' = scene) =>
                /\ hasPlayerReachedStairs'
                /\ UNCHANGED <<stairsCallback, player, fadePending, goalStarts, fadesDone>>]_vars

\* The second level is running and its stairs have been reached: one fade completed,
\* one goal transition started in this level.
C10_Witness ==
    /\ scene = "running"
    /\ level = 2
    /\ fadesDone = 1
    /\ hasPlayerReachedStairs
    /\ goalStarts = 1
    /\ stairsCallback = "noop"

====
